---------------------------- MODULE Spec2Model ----------------------------
(***************************************************************************)
(* Model of src/blpapi/ffi_utils.c: the element-to-Python conversion       *)
(* (getScalarValue, complexElementToPy, arrayElementToPy,                  *)
(* blpapi_Element_toPy) and the managed-pointer lifetime bridge (incref,   *)
(* managerFunc, setmptr, is_known_obj).                                    *)
(*                                                                         *)
(* Three specifications share the module:                                  *)
(*   SpecLife  the managed pointer handles and the reference counts        *)
(*   SpecGIL   threads calling managerFunc / incref, one step per          *)
(*             statement, under the interpreter lock                       *)
(*   SpecConv  calls of blpapi_Element_toPy on element trees, with the     *)
(*             native accessors' and the runtime's failures injected       *)
(***************************************************************************)
EXTENDS Integers, Sequences, FiniteSets, TLC

VARIABLES
    \* ---- SpecLife
    handles,    \* handle -> [pointer, manager]: the blpapi_ManagedPtr_t structs
    stage,      \* handle -> "free" | "alloc" | "live" (the native side's view)
    installed,  \* handle -> BOOLEAN: the manager value stems from setmptr
    refcnt,     \* object -> ob_refcnt
    ext,        \* object -> references held outside the handles
    \* ---- SpecGIL
    pc,         \* thread -> position in its call
    call,       \* thread -> [fn, op, ptr, py]: the call the thread makes
    gilOwner,   \* thread holding the interpreter lock, 0 when free
    gilCount,   \* thread -> PyGILState nesting counter
    saved,      \* thread -> the PyGILState_STATE s of the running call
    tmp,        \* thread -> the count read by the running INCREF / DECREF
    cnt,        \* ob_refcnt of the shared object
    \* ---- SpecConv
    phase,      \* "idle" | "returned"
    cache,      \* the three function-static pointers of getScalarValue
    last        \* what the last blpapi_Element_toPy call did

lifeVars == <<handles, stage, installed, refcnt, ext>>
gilVars  == <<pc, call, gilOwner, gilCount, saved, tmp, cnt>>
convVars == <<phase, cache, last>>
vars     == <<lifeVars, gilVars, convVars>>

-----------------------------------------------------------------------------
(* Bounds *)

NumHandles == 3
MaxExt == 1
NumThreads == 2
MaxLen == 2

Hs   == 1..NumHandles
Objs == {1, 2}
\* A pointer is 0 (NULL), an object, or an address that is no Python object
\* (what a handle of the native library's own manager carries).
ForeignPtr == 99
Ptrs == {0} \cup Objs

-----------------------------------------------------------------------------
(* The lifetime bridge, lines 284-337 *)

\* Py_XINCREF / Py_XDECREF on a table of counts: NULL is skipped.
XINCREF(rc, p) == IF p = 0 THEN rc ELSE [rc EXCEPT ![p] = @ + 1]

XDECREF(rc, p) == IF p = 0 THEN rc ELSE [rc EXCEPT ![p] = @ - 1]

\* incref(obj): the count of obj after the call.
Incref(rc, obj) == XINCREF(rc, obj)

\* managerFunc(mptr, sptr, operation): the struct *mptr after the call.
ManagerFuncPtr_NoManager(m, s, operation) ==
    IF operation = "COPY" THEN [m EXCEPT !.pointer = s.pointer] ELSE m

ManagerFuncPtr(m, s, operation) ==
    IF operation = "COPY"
    THEN [pointer |-> s.pointer, manager |-> s.manager]
    ELSE m

\* managerFunc(mptr, sptr, operation): the counts after the call.
ManagerFuncRc_NoIncref(rc, m, s, operation) ==
    IF operation = "DESTROY" THEN XDECREF(rc, m.pointer) ELSE rc

ManagerFuncRc(rc, m, s, operation) ==
    IF operation = "COPY" THEN XINCREF(rc, s.pointer)
    ELSE IF operation = "DESTROY" THEN XDECREF(rc, m.pointer)
    ELSE rc

\* setmptr(s): the struct after the call.
SetMptr(p) == [p EXCEPT !.manager = "managerFunc"]

\* is_known_obj(s)
Is_known_obj(p) == p.manager = "managerFunc"

\* A struct that is not in use.
Freed == [pointer |-> 0, manager |-> "null"]

InitLife ==
    /\ handles = [h \in Hs |-> Freed]
    /\ stage = [h \in Hs |-> "free"]
    /\ installed = [h \in Hs |-> FALSE]
    /\ refcnt = [o \in Objs |-> 1]
    /\ ext = [o \in Objs |-> 1]
    /\ pc = <<>> /\ call = <<>> /\ gilOwner = 0 /\ gilCount = <<>>
    /\ saved = <<>> /\ tmp = <<>> /\ cnt = 0
    /\ phase = "idle" /\ cache = <<>> /\ last = <<>>

\* The caller builds a zeroed struct around an object pointer.
Alloc(h, p) ==
    /\ stage[h] = "free"
    /\ IF p = 0 THEN TRUE ELSE refcnt[p] > 0
    /\ handles' = [handles EXCEPT ![h] = [pointer |-> p, manager |-> "null"]]
    /\ stage' = [stage EXCEPT ![h] = "alloc"]
    /\ installed' = [installed EXCEPT ![h] = FALSE]
    /\ UNCHANGED <<refcnt, ext, gilVars, convVars>>

\* The native library hands out a handle of its own (a recap correlation id).
AllocForeign(h) ==
    /\ stage[h] = "free"
    /\ handles' = [handles EXCEPT ![h] = [pointer |-> ForeignPtr, manager |-> "other"]]
    /\ stage' = [stage EXCEPT ![h] = "live"]
    /\ installed' = [installed EXCEPT ![h] = FALSE]
    /\ UNCHANGED <<refcnt, ext, gilVars, convVars>>

\* The native library destroys a handle of its own through its own manager.
FreeForeign(h) ==
    /\ stage[h] = "live"
    /\ handles[h].manager = "other"
    /\ handles' = [handles EXCEPT ![h] = Freed]
    /\ stage' = [stage EXCEPT ![h] = "free"]
    /\ UNCHANGED <<installed, refcnt, ext, gilVars, convVars>>

setmptr(h) ==
    /\ stage[h] = "alloc" \/ (stage[h] = "live" /\ handles[h].manager = "managerFunc")
    /\ handles' = [handles EXCEPT ![h] = SetMptr(@)]
    /\ installed' = [installed EXCEPT ![h] = TRUE]
    /\ UNCHANGED <<stage, refcnt, ext, gilVars, convVars>>

\* incref(obj) by a caller that keeps the new reference for itself.
incref(o) ==
    /\ refcnt[o] > 0
    /\ ext[o] < MaxExt
    /\ refcnt' = Incref(refcnt, o)
    /\ ext' = [ext EXCEPT ![o] = @ + 1]
    /\ UNCHANGED <<handles, stage, installed, gilVars, convVars>>

\* incref(obj) for the handle just built: the handle now owns one reference.
increfHandle(h) ==
    /\ stage[h] = "alloc"
    /\ handles[h].manager = "managerFunc"
    /\ LET p == handles[h].pointer IN
         /\ IF p = 0 THEN TRUE ELSE refcnt[p] > 0
         /\ refcnt' = Incref(refcnt, p)
    /\ stage' = [stage EXCEPT ![h] = "live"]
    /\ UNCHANGED <<handles, installed, ext, gilVars, convVars>>

\* A reference held outside the handles is dropped (Py_DECREF elsewhere).
ExtRelease(o) ==
    /\ ext[o] > 0
    /\ refcnt' = [refcnt EXCEPT ![o] = @ - 1]
    /\ ext' = [ext EXCEPT ![o] = @ - 1]
    /\ UNCHANGED <<handles, stage, installed, gilVars, convVars>>

\* The native library copies a live handle of ours into a fresh struct.
managerFuncCopy(d, s) ==
    /\ stage[d] = "free"
    /\ stage[s] = "live"
    /\ handles[s].manager = "managerFunc"
    /\ handles' = [handles EXCEPT ![d] = ManagerFuncPtr(@, handles[s], "COPY")]
    /\ refcnt' = ManagerFuncRc(refcnt, handles[d], handles[s], "COPY")
    /\ stage' = [stage EXCEPT ![d] = "live"]
    /\ installed' = [installed EXCEPT ![d] = installed[s]]
    /\ UNCHANGED <<ext, gilVars, convVars>>

\* The native library destroys a live handle of ours and gives the struct's
\* memory back: what managerFunc left in it is gone with it.
managerFuncDestroy(h) ==
    /\ stage[h] = "live"
    /\ handles[h].manager = "managerFunc"
    /\ ManagerFuncPtr(handles[h], handles[h], "DESTROY") = handles[h]
    /\ handles' = [handles EXCEPT ![h] = Freed]
    /\ refcnt' = ManagerFuncRc(refcnt, handles[h], handles[h], "DESTROY")
    /\ stage' = [stage EXCEPT ![h] = "free"]
    /\ installed' = [installed EXCEPT ![h] = FALSE]
    /\ UNCHANGED <<ext, gilVars, convVars>>

\* Any other operation code: neither branch is taken.
managerFuncOther(h) ==
    /\ stage[h] = "live"
    /\ handles[h].manager = "managerFunc"
    /\ handles' = [handles EXCEPT ![h] = ManagerFuncPtr(@, @, "OTHER")]
    /\ refcnt' = ManagerFuncRc(refcnt, handles[h], handles[h], "OTHER")
    /\ UNCHANGED <<stage, installed, ext, gilVars, convVars>>

is_known_obj(h) ==
    /\ stage[h] # "free"
    /\ Is_known_obj(handles[h]) \in BOOLEAN
    /\ UNCHANGED <<handles, stage, installed, refcnt, ext, gilVars, convVars>>

NextLife ==
    \/ \E h \in Hs, p \in Ptrs : Alloc(h, p)
    \/ \E h \in Hs : AllocForeign(h)
    \/ \E h \in Hs : FreeForeign(h)
    \/ \E h \in Hs : setmptr(h)
    \/ \E o \in Objs : incref(o)
    \/ \E h \in Hs : increfHandle(h)
    \/ \E o \in Objs : ExtRelease(o)
    \/ \E d \in Hs, s \in Hs : managerFuncCopy(d, s)
    \/ \E h \in Hs : managerFuncDestroy(h)
    \/ \E h \in Hs : managerFuncOther(h)
    \/ \E h \in Hs : is_known_obj(h)

SpecLife == InitLife /\ [][NextLife]_vars

\* The live handles of ours that point at object o.
LiveOn(o) ==
    {h \in Hs : stage[h] = "live" /\ handles[h].manager = "managerFunc"
                                  /\ handles[h].pointer = o}

\* C1: after any sequence of incref, COPY and DESTROY, every object's count is
\* its external references plus its live handles (so copy, copy, destroy,
\* destroy is net zero, and DESTROY of a null-pointer handle changes no count).
C1_CountIsExtPlusLive ==
    \A o \in Objs : refcnt[o] = ext[o] + Cardinality(LiveOn(o))

\* C1 witness: an object carried by two live handles next to an external
\* reference, while a live handle with a null pointer exists.
C1_Witness ==
    \E o \in Objs :
        /\ Cardinality(LiveOn(o)) = 2 /\ ext[o] = 1 /\ refcnt[o] = 3
        /\ LiveOn(0) # {}

\* C8: is_known_obj answers true exactly for the structs whose manager value
\* stems from setmptr (set on them, or inherited by COPY), and false for any
\* other manager; setmptr and is_known_obj leave pointers and counts alone.
C8_KnownIffInstalled ==
    /\ [](\A h \in Hs : stage[h] # "free" =>
              (Is_known_obj(handles[h]) <=> installed[h]))
    /\ [][(\E h \in Hs : setmptr(h) \/ is_known_obj(h)) =>
              /\ \A h \in Hs : handles'[h].pointer = handles[h].pointer
              /\ refcnt' = refcnt]_vars

\* C8 witness: a live handle of ours that is known, beside a handle of the
\* native library and a struct not yet installed, both unknown.
C8_Witness ==
    \E h \in Hs, f \in Hs, a \in Hs :
        /\ stage[h] = "live" /\ installed[h] /\ Is_known_obj(handles[h])
        /\ stage[f] = "live" /\ handles[f].manager = "other"
        /\ ~Is_known_obj(handles[f])
        /\ stage[a] = "alloc" /\ handles[a].pointer # 0
        /\ ~Is_known_obj(handles[a])

-----------------------------------------------------------------------------
(* Threads calling the bridge, one step per statement (lines 288-320).      *)
(* Py_XINCREF and Py_XDECREF are a read and a write of ob_refcnt; what      *)
(* keeps them together is the interpreter lock taken by PyGILState_Ensure.  *)

Threads == 1..NumThreads

\* The object starts with one reference per caller, so that no DESTROY of the
\* run frees it.
InitCnt == NumThreads + 1

\* The calls a thread may make: fn(op, ptr), from a thread of the interpreter
\* (py: it holds the lock around the call) or from a native thread.
Calls ==
    {[fn |-> "managerFunc", op |-> o, ptr |-> p, py |-> y] :
        o \in {"COPY", "DESTROY"}, p \in {0, 1}, y \in BOOLEAN}
    \cup {[fn |-> "managerFunc", op |-> "OTHER", ptr |-> 1, py |-> y] : y \in BOOLEAN}
    \cup {[fn |-> "incref", op |-> "NONE", ptr |-> 1, py |-> y] : y \in BOOLEAN}

\* +1, -1 or 0: what the call does to the count of its object.
Delta(c) ==
    IF c.ptr = 0 THEN 0
    ELSE IF c.fn = "incref" \/ c.op = "COPY" THEN 1
    ELSE IF c.op = "DESTROY" THEN -1
    ELSE 0

InitGIL ==
    /\ call \in [Threads -> Calls]
    /\ pc = [t \in Threads |-> IF call[t].py THEN "py_enter" ELSE "ensure"]
    /\ gilOwner = 0
    /\ gilCount = [t \in Threads |-> 0]
    /\ saved = [t \in Threads |-> "NONE"]
    /\ tmp = [t \in Threads |-> 0]
    /\ cnt = InitCnt
    /\ handles = <<>> /\ stage = <<>> /\ installed = <<>>
    /\ refcnt = <<>> /\ ext = <<>>
    /\ phase = "idle" /\ cache = <<>> /\ last = <<>>

\* An interpreter thread takes the lock before it runs the caller's code.
PyEnter(t) ==
    /\ pc[t] = "py_enter"
    /\ gilOwner = 0
    /\ gilOwner' = t
    /\ gilCount' = [gilCount EXCEPT ![t] = 1]
    /\ pc' = [pc EXCEPT ![t] = "ensure"]
    /\ UNCHANGED <<call, saved, tmp, cnt, lifeVars, convVars>>

\* PyGILState_Ensure() skipped: the statement after it runs at once.
GILState_Ensure_Missing(t) ==
    /\ pc[t] = "ensure"
    /\ saved' = [saved EXCEPT ![t] = "LOCKED"]
    /\ gilCount' = [gilCount EXCEPT ![t] = @ + 1]
    /\ pc' = [pc EXCEPT ![t] = IF Delta(call[t]) = 0 THEN "release" ELSE "read"]
    /\ UNCHANGED <<call, gilOwner, tmp, cnt, lifeVars, convVars>>

\* s = PyGILState_Ensure(): nested when the thread holds the lock, else it
\* waits for the lock.  Then the branch on operation (the struct writes of
\* COPY touch memory of the caller only).
GILState_Ensure(t) ==
    /\ pc[t] = "ensure"
    /\ IF gilCount[t] > 0
       THEN /\ saved' = [saved EXCEPT ![t] = "LOCKED"]
            /\ UNCHANGED gilOwner
       ELSE /\ gilOwner = 0
            /\ gilOwner' = t
            /\ saved' = [saved EXCEPT ![t] = "UNLOCKED"]
    /\ gilCount' = [gilCount EXCEPT ![t] = @ + 1]
    /\ pc' = [pc EXCEPT ![t] = IF Delta(call[t]) = 0 THEN "release" ELSE "read"]
    /\ UNCHANGED <<call, tmp, cnt, lifeVars, convVars>>

\* Py_XINCREF / Py_XDECREF, first half: load ob_refcnt.
RefRead(t) ==
    /\ pc[t] = "read"
    /\ tmp' = [tmp EXCEPT ![t] = cnt]
    /\ pc' = [pc EXCEPT ![t] = "write"]
    /\ UNCHANGED <<call, gilOwner, gilCount, saved, cnt, lifeVars, convVars>>

\* Py_XINCREF / Py_XDECREF, second half: store ob_refcnt.
RefWrite(t) ==
    /\ pc[t] = "write"
    /\ cnt' = tmp[t] + Delta(call[t])
    /\ pc' = [pc EXCEPT ![t] = "release"]
    /\ UNCHANGED <<call, gilOwner, gilCount, saved, tmp, lifeVars, convVars>>

\* PyGILState_Release(s)
GILState_Release(t) ==
    /\ pc[t] = "release"
    /\ gilCount' = [gilCount EXCEPT ![t] = @ - 1]
    /\ gilOwner' = IF saved[t] = "UNLOCKED" THEN 0 ELSE gilOwner
    /\ saved' = [saved EXCEPT ![t] = "NONE"]
    /\ pc' = [pc EXCEPT ![t] = IF call[t].py THEN "py_leave" ELSE "done"]
    /\ UNCHANGED <<call, tmp, cnt, lifeVars, convVars>>

\* The interpreter thread gives the lock up after the call.
PyLeave(t) ==
    /\ pc[t] = "py_leave"
    /\ gilOwner' = IF gilOwner = t THEN 0 ELSE gilOwner
    /\ gilCount' = [gilCount EXCEPT ![t] = 0]
    /\ pc' = [pc EXCEPT ![t] = "done"]
    /\ UNCHANGED <<call, saved, tmp, cnt, lifeVars, convVars>>

NextGIL ==
    \/ \E t \in Threads : PyEnter(t)
    \/ \E t \in Threads : GILState_Ensure(t)
    \/ \E t \in Threads : RefRead(t)
    \/ \E t \in Threads : RefWrite(t)
    \/ \E t \in Threads : GILState_Release(t)
    \/ \E t \in Threads : PyLeave(t)

SpecGIL == InitGIL /\ [][NextGIL]_vars

RECURSIVE SumDelta(_)
SumDelta(n) == IF n = 0 THEN 0 ELSE Delta(call[n]) + SumDelta(n - 1)

AllDone == \A t \in Threads : pc[t] = "done"

\* A thread that is not done and does not wait for a lock held by another.
CanStep(t) ==
    /\ pc[t] # "done"
    /\ pc[t] = "py_enter" => gilOwner = 0
    /\ (pc[t] = "ensure" /\ gilCount[t] = 0) => gilOwner = 0

\* C7: every load and store of the count happens with the lock held by the
\* thread; each call gives back exactly what it took (a nested call leaves
\* the caller's hold in place, an outermost call frees the lock), also for an
\* unrecognized operation; some thread can always go on; and when all calls
\* have returned the count is the initial one plus the COPY and incref calls
\* minus the DESTROY calls on non-null pointers.
C7_LockedCounts ==
    /\ \A t \in Threads :
          /\ pc[t] \in {"read", "write", "release"} =>
                gilOwner = t /\ gilCount[t] = (IF call[t].py THEN 2 ELSE 1)
          /\ pc[t] = "py_leave" => gilOwner = t /\ gilCount[t] = 1
          /\ pc[t] = "done" => gilOwner # t /\ gilCount[t] = 0
    /\ AllDone \/ \E t \in Threads : CanStep(t)
    /\ AllDone => cnt = InitCnt + SumDelta(NumThreads)

\* C7 witness: all calls returned after a nested COPY of an interpreter thread
\* and a DESTROY of a native thread changed the count.
C7_Witness ==
    /\ AllDone
    /\ \E t \in Threads, u \in Threads :
          /\ call[t].py /\ call[t].op = "COPY" /\ call[t].ptr = 1
          /\ ~call[u].py /\ call[u].op = "DESTROY" /\ call[u].ptr = 1
    /\ cnt = InitCnt + SumDelta(NumThreads)

-----------------------------------------------------------------------------
(* The conversion, lines 19-282.                                            *)
(*                                                                          *)
(* A call threads one record S through the code:                            *)
(*   heap    the Python objects, id -> [kind, val, rc, base, items]; rc is  *)
(*           ob_refcnt, base the references held outside this call, items   *)
(*           the ids a list holds or the <<name, id>> pairs a dict holds    *)
(*   err     the error indicator ("" when clear), errs every error set      *)
(*   calls   the native accessors called, in order                          *)
(*   route   the converters entered, in order, with the value index passed  *)
(*   helper  the argument tuples toPyTimeFromInts was called with           *)
(*   cache   the three static pointers, lookups the resolution steps run,   *)
(*           refs the references this call took for them and still holds    *)
(*   env     what the interpreter can resolve during this call              *)
(*   ub      a Py_DECREF of an object this call holds no reference to       *)
(* and every operator returns [S, ret] with ret an object id or 0 (NULL).   *)

NoneId == 1

NoneObj == [kind |-> "None", val |-> 0, rc |-> 1, base |-> 1, items |-> <<>>]

NoRefs == [module |-> 0, util |-> 0, func |-> 0, name1 |-> 0, name2 |-> 0]

Fresh(c, env) ==
    [heap |-> <<NoneObj>>, err |-> "", errs |-> <<>>, calls |-> <<>>,
     route |-> <<>>, helper |-> <<>>, cache |-> c, lookups |-> <<>>,
     refs |-> NoRefs, env |-> env, ub |-> FALSE]

Called(S, f) == [S EXCEPT !.calls = Append(@, f)]

Entered(S, f, index) == [S EXCEPT !.route = Append(@, [fn |-> f, index |-> index])]

\* PyErr_SetString, or the runtime setting the error of a call that failed.
SetErr(S, msg) == [S EXCEPT !.err = msg, !.errs = Append(@, msg)]

Fail(S, msg) == [S |-> SetErr(S, msg), ret |-> 0]

\* A new object holding one reference.
NewObj(S, kind, val, items) ==
    [S |-> [S EXCEPT !.heap = Append(@, [kind |-> kind, val |-> val, rc |-> 1,
                                          base |-> 0, items |-> items])],
     ret |-> Len(S.heap) + 1]

\* Py_INCREF
IncRef(S, id) == [S EXCEPT !.heap[id].rc = @ + 1]

\* Py_RETURN_NONE
ReturnNone(S) == [S |-> IncRef(S, NoneId), ret |-> NoneId]

ItemIds(o) ==
    IF o.kind = "dict" THEN [k \in 1..Len(o.items) |-> o.items[k][2]] ELSE o.items

\* Py_XDECREF: the last reference frees the object, which releases what it
\* holds.  Releasing an object this call holds no reference to is undefined;
\* the store to the count is kept and the call marked.
RECURSIVE DecRef(_, _), DecRefAll(_, _, _)
DecRef(S, id) ==
    IF id = 0 THEN S
    ELSE LET o == S.heap[id] IN
         IF o.rc <= o.base
         THEN [S EXCEPT !.ub = TRUE, !.heap[id].rc = @ - 1]
         ELSE LET S1 == [S EXCEPT !.heap[id].rc = @ - 1] IN
              IF o.rc = 1 THEN DecRefAll(S1, ItemIds(o), 1) ELSE S1

DecRefAll(S, ids, k) ==
    IF k > Len(ids) THEN S ELSE DecRefAll(DecRef(S, ids[k]), ids, k + 1)

-----------------------------------------------------------------------------
(* getScalarValue, lines 19-170 *)

\* The native accessor's status for value i (1-based) of the element.
AccessorFails(e, i) ==
    IF i > Len(e.vals) THEN TRUE ELSE e.vals[i].fail = "accessor"

\* One case of the switch: the accessor, then the Python constructor on what
\* it read.  mayFail: the constructor can return NULL (the runtime then has
\* set its own error).
ScalarCase(S, e, i, accessor, msg, kind, val, mayFail) ==
    LET S1 == Called(S, accessor) IN
    IF AccessorFails(e, i) THEN Fail(S1, msg)
    ELSE IF mayFail /\ e.vals[i].fail = "python" THEN Fail(S1, "error set by the runtime")
    ELSE NewObj(S1, kind, val, <<>>)

\* Lines 103-132: the three lookups, run when convertToPyTime is NULL.
\* Returns [S, ok].
ResolveHelper(S) ==
    IF S.cache.conv # "NULL" THEN [S |-> S, ok |-> TRUE]
    ELSE
    LET S1 == [S EXCEPT !.lookups = Append(@, "import")] IN
    IF S.env = "noModule"
    THEN [S |-> SetErr(SetErr([S1 EXCEPT !.cache.module = "NULL"],
                              "error set by the runtime"),
                       "Internal error getting blpapi.datetime"),
          ok |-> FALSE]
    ELSE
    LET S2 == [S1 EXCEPT !.cache.module = "live", !.refs.module = @ + 1,
                         !.refs.name1 = @ + 1,
                         !.lookups = Append(@, "getattr _DatetimeUtil")] IN
    IF S.env = "noUtil"
    THEN [S |-> SetErr(SetErr([S2 EXCEPT !.cache.util = "NULL",
                                         !.cache.module = "released",
                                         !.refs.module = @ - 1],
                              "error set by the runtime"),
                       "Internal error getting _DatetimeUtil"),
          ok |-> FALSE]
    ELSE
    LET S3 == [S2 EXCEPT !.cache.util = "live", !.refs.util = @ + 1,
                         !.refs.name2 = @ + 1,
                         !.lookups = Append(@, "getattr toPyTimeFromInts")] IN
    IF S.env = "noFunc"
    THEN [S |-> SetErr(SetErr([S3 EXCEPT !.cache.conv = "NULL",
                                         !.cache.module = "released",
                                         !.cache.util = "released",
                                         !.refs.module = @ - 1,
                                         !.refs.util = @ - 1],
                              "error set by the runtime"),
                       "Internal error getting 'toPyTimeFromInts'"),
          ok |-> FALSE]
    ELSE [S |-> [S3 EXCEPT !.cache.conv = "live", !.refs.func = @ + 1],
          ok |-> TRUE]

\* Lines 159-160.  milliSeconds is 16 bits wide and picoseconds 32 bits, so
\* the sum is at most 65535 * 1000 + 4294 and no width is exceeded.
SubSecond_Truncated(ms, ps) == (ms * 1000) + (ps \div 1000000000)

SubSecond(ms, ps) == (ms * 1000) + (ps \div 1000000)

\* Lines 134-161.
DatetimeCase(S, e, i) ==
    LET r == ResolveHelper(S) IN
    IF ~r.ok THEN [S |-> r.S, ret |-> 0]
    ELSE
    LET S1 == Called(r.S, "getValueAsHighPrecisionDatetime") IN
    IF AccessorFails(e, i) THEN Fail(S1, "Internal error getting datetime")
    ELSE
    LET d == e.vals[i].v IN
    IF d.parts = 0 THEN ReturnNone(S1)
    ELSE
    LET args == <<d.parts, d.offset, d.year, d.month, d.day, d.hours, d.minutes,
                  d.seconds, SubSecond(d.ms, d.ps)>>
        S2 == [S1 EXCEPT !.helper = Append(@, args)] IN
    IF e.vals[i].fail = "python" THEN Fail(S2, "error set by the runtime")
    ELSE NewObj(S2, "datetime", args, <<>>)

GetScalarValue(S, e, index) ==
    LET S0 == Called(Entered(S, "getScalarValue", index), "datatype")
        dt == e.datatype
        i  == index + 1
        v  == IF i <= Len(e.vals) THEN e.vals[i].v ELSE 0
    IN
    CASE dt = "BOOL" ->
           ScalarCase(S0, e, i, "getValueAsBool", "Internal error getting bool",
                      "bool", v # 0, FALSE)
      [] dt \in {"BYTE", "INT32", "INT64"} ->
           ScalarCase(S0, e, i, "getValueAsInt64", "Internal error getting int",
                      "int", v, TRUE)
      [] dt \in {"FLOAT32", "FLOAT64"} ->
           ScalarCase(S0, e, i, "getValueAsFloat64", "Internal error getting float",
                      "float", v, TRUE)
      [] dt \in {"CHAR", "STRING", "ENUMERATION"} ->
           ScalarCase(S0, e, i, "getValueAsString", "Internal error getting string",
                      "str", v, TRUE)
      [] dt = "BYTEARRAY" ->
           ScalarCase(S0, e, i, "getValueAsBytes", "Internal error getting bytes",
                      "bytes", v, TRUE)
      [] dt \in {"DATE", "TIME", "DATETIME"} -> DatetimeCase(S0, e, i)
      [] OTHER -> Fail(S0, "Internal datatype error")

-----------------------------------------------------------------------------
(* complexElementToPy, arrayElementToPy, blpapi_Element_toPy: lines 172-282 *)

\* The ERROR label of both converters: release the container and the value
\* variable, and set the generic error when none is set.
ErrorExit_AlwaysGeneric(S, container, value, generic) ==
    [S |-> SetErr(DecRef(DecRef(S, container), value), generic), ret |-> 0]

ErrorExit(S, container, value, generic) ==
    LET S1 == DecRef(DecRef(S, container), value) IN
    [S |-> IF S1.err = "" THEN SetErr(S1, generic) ELSE S1, ret |-> 0]

\* The position of name among the pairs of a dict, 0 when absent.
KeyIndex(items, name) ==
    IF \E k \in 1..Len(items) : items[k][1] = name
    THEN CHOOSE k \in 1..Len(items) : items[k][1] = name
    ELSE 0

\* PyDict_SetItemString, succeeding: the dict takes a reference of its own;
\* an entry of the same name is replaced and its value released.
DictSetItem(S, dict, name, id) ==
    LET S1 == IncRef(S, id)
        k  == KeyIndex(S.heap[dict].items, name)
    IN IF k = 0
       THEN [S1 EXCEPT !.heap[dict].items = Append(@, <<name, id>>)]
       ELSE DecRef([S1 EXCEPT !.heap[dict].items[k] = <<name, id>>],
                   S.heap[dict].items[k][2])

\* PyList_SetItem: the list takes over the caller's reference.
ListSetItem_Reversed(S, list, i, id) ==
    LET j == Len(S.heap[list].items) + 1 - i IN
    DecRef([S EXCEPT !.heap[list].items[j] = id], S.heap[list].items[j])

ListSetItem(S, list, i, id) ==
    DecRef([S EXCEPT !.heap[list].items[i] = id], S.heap[list].items[i])

NumValues(e) == IF e.typeComplex THEN Len(e.subs) ELSE Len(e.vals)

ComplexGeneric == "Internal error converting a complex Element"
ArrayGeneric   == "Internal error converting an array Element"

RECURSIVE ElementToPy(_, _), ComplexElementToPy(_, _), ComplexLoop(_, _, _, _, _),
          ArrayElementToPy(_, _), ArrayLoop(_, _, _, _, _, _)

\* The for loop of lines 180-198, from sub-element i (1-based) on;
\* subPy is what the variable subElementPy holds on entry.
ComplexLoop(S, e, dict, subPy, i) ==
    LET S0 == Called(S, "numElements") IN
    IF i > Len(e.subs) THEN [S |-> S0, ret |-> dict]
    ELSE
    LET S1 == Called(S0, "getElementAt") IN
    IF e.fail = "access" /\ e.failAt = i
    THEN ErrorExit(SetErr(S1, "Internal error in Element.toPy"),
                   dict, subPy, ComplexGeneric)
    ELSE
    LET sub == e.subs[i]
        r   == ElementToPy(Called(S1, "nameString"), sub)
    IN
    IF r.ret = 0 THEN ErrorExit(r.S, dict, 0, ComplexGeneric)
    ELSE IF e.fail = "insert" /\ e.failAt = i
    THEN ErrorExit(SetErr(r.S, "error set by the runtime"), dict, r.ret,
                   ComplexGeneric)
    ELSE ComplexLoop(DecRef(DictSetItem(r.S, dict, sub.name, r.ret), r.ret),
                     e, dict, r.ret, i + 1)

ComplexElementToPy(S, e) ==
    LET S0 == Entered(S, "complexElementToPy", 0) IN
    IF e.fail = "new"
    THEN ErrorExit(SetErr(S0, "error set by the runtime"), 0, 0, ComplexGeneric)
    ELSE LET d == NewObj(S0, "dict", 0, <<>>) IN
         ComplexLoop(d.S, e, d.ret, 0, 1)

\* The for loops of lines 229-243 and 247-253, from value i (1-based) on;
\* pyValue is what the variable pyValue holds on entry.
ArrayLoop(S, e, list, pyValue, i, complex) ==
    IF i > NumValues(e) THEN [S |-> S, ret |-> list]
    ELSE IF complex
    THEN LET S1 == Called(S, "getValueAsElement") IN
         IF e.fail = "access" /\ e.failAt = i
         THEN ErrorExit(SetErr(S1, "Internal error in blpapi_Element_getValueAsElement"),
                        list, pyValue, ArrayGeneric)
         ELSE LET r == ElementToPy(S1, e.subs[i]) IN
              IF r.ret = 0 THEN ErrorExit(r.S, list, 0, ArrayGeneric)
              ELSE ArrayLoop(ListSetItem(r.S, list, i, r.ret), e, list, r.ret,
                             i + 1, complex)
    ELSE LET r == GetScalarValue(S, e, i - 1) IN
         IF r.ret = 0 THEN ErrorExit(r.S, list, 0, ArrayGeneric)
         ELSE ArrayLoop(ListSetItem(r.S, list, i, r.ret), e, list, r.ret,
                        i + 1, complex)

ArrayElementToPy(S, e) ==
    LET S0 == Called(Called(Called(Entered(S, "arrayElementToPy", 0), "numValues"),
                            "definition"), "SchemaElementDefinition_type")
        n  == NumValues(e)
    IN
    IF e.fail = "new"
    THEN ErrorExit(SetErr(S0, "error set by the runtime"), 0, 0, ArrayGeneric)
    ELSE LET l  == NewObj(S0, "list", 0, [k \in 1..n |-> 0])
             S1 == Called(l.S, "SchemaTypeDefinition_isComplexType")
         IN ArrayLoop(S1, e, l.ret, 0, 1, e.typeComplex)

\* blpapi_Element_toPy with the null test first.
ElementToPy_NullFirst(S, e) ==
    LET S1 == Called(S, "isNull") IN
    IF e.isNull THEN ReturnNone(S1)
    ELSE LET S2 == Called(S1, "isComplexType") IN
         IF e.isComplex THEN ComplexElementToPy(S2, e)
         ELSE LET S3 == Called(S2, "isArray") IN
              IF e.isArray THEN ArrayElementToPy(S3, e)
              ELSE GetScalarValue(S3, e, 0)

\* blpapi_Element_toPy without the null branch.
ElementToPy_NoNullTest(S, e) ==
    LET S1 == Called(S, "isComplexType") IN
    IF e.isComplex THEN ComplexElementToPy(S1, e)
    ELSE LET S2 == Called(S1, "isArray") IN
         IF e.isArray THEN ArrayElementToPy(S2, e)
         ELSE GetScalarValue(S2, e, 0)

ElementToPy(S, e) ==
    LET S1 == Called(S, "isComplexType") IN
    IF e.isComplex THEN ComplexElementToPy(S1, e)
    ELSE LET S2 == Called(S1, "isArray") IN
         IF e.isArray THEN ArrayElementToPy(S2, e)
         ELSE LET S3 == Called(S2, "isNull") IN
              IF e.isNull THEN ReturnNone(S3)
              ELSE GetScalarValue(S3, e, 0)

-----------------------------------------------------------------------------
(* The elements handed to blpapi_Element_toPy.  An element carries what its *)
(* native accessors answer: the shape flags, the datatype, its name, the    *)
(* schema's isComplexType, its values ([v, fail]: the native value, and     *)
(* whether its accessor or the Python constructor fails), its sub-elements, *)
(* and the one point where an accessor or the runtime fails in a container  *)
(* (fail: "new" the PyDict_New / PyList_New, "access" the getElementAt /    *)
(* getValueAsElement of position failAt, "insert" the PyDict_SetItemString  *)
(* of position failAt).                                                     *)

Elem(cx, ar, nl, dt, nm, tc, vs, ss, f) ==
    [isComplex |-> cx, isArray |-> ar, isNull |-> nl, datatype |-> dt,
     name |-> nm, typeComplex |-> tc, vals |-> vs, subs |-> ss,
     fail |-> f[1], failAt |-> f[2]]

NoFail == <<"none", 0>>

\* t tells the kinds of native value apart: "i" a number, "s" characters,
\* "d" a high-precision datetime.
Slot(t, v, f) == [t |-> t, v |-> v, fail |-> f]

DtVal(parts, ms, ps) ==
    [parts |-> parts, offset |-> 0, year |-> 2024, month |-> 2, day |-> 29,
     hours |-> 23, minutes |-> 59, seconds |-> 58, ms |-> ms, ps |-> ps]

Datatypes ==
    {"BOOL", "BYTE", "INT32", "INT64", "FLOAT32", "FLOAT64", "CHAR", "STRING",
     "ENUMERATION", "BYTEARRAY", "DATE", "TIME", "DATETIME", "SEQUENCE",
     "CHOICE", "DECIMAL"}

DateTypes == {"DATE", "TIME", "DATETIME"}

\* The native values of a datatype, with the failures that can meet them.
Slots(dt) ==
    CASE dt = "BOOL" -> {Slot("i", v, f) : v \in {0, 1, 2}, f \in {"none", "accessor"}}
      [] dt \in {"BYTE", "INT32", "INT64"} ->
           {Slot("i", v, f) : v \in {42, -1}, f \in {"none", "accessor", "python"}}
      [] dt \in {"FLOAT32", "FLOAT64"} ->
           {Slot("i", 1500, f) : f \in {"none", "accessor", "python"}}
      [] dt \in {"CHAR", "STRING", "ENUMERATION"} ->
           {Slot("s", v, f) : v \in {"ABC", ""}, f \in {"none", "accessor", "python"}}
      [] dt = "BYTEARRAY" -> {Slot("s", "ab", f) : f \in {"none", "accessor", "python"}}
      [] dt \in DateTypes ->
           {Slot("d", DtVal(p, ms, ps), f) :
               p \in {0, 7, 247}, ms \in {0, 999}, ps \in {0, 500000000},
               f \in {"none", "accessor", "python"}}
      [] OTHER -> {Slot("i", 0, "none")}

Scalar(dt, nm, slot, nl) == Elem(FALSE, FALSE, nl, dt, nm, FALSE, <<slot>>, <<>>, NoFail)

TopScalars ==
    UNION {{Scalar(dt, "F", s, nl) : s \in Slots(dt), nl \in BOOLEAN} : dt \in Datatypes}

SeqsUpTo(S, n) == UNION {[1..k -> S] : k \in 0..n}

\* The values an array of scalars is built from.
ArraySlots(dt) ==
    CASE dt = "INT64" -> {Slot("i", 1, "none"), Slot("i", 2, "none"), Slot("i", 3, "accessor"),
                          Slot("i", 4, "python")}
      [] dt = "STRING" -> {Slot("s", "ABC", "none"), Slot("s", "", "none"),
                           Slot("s", "x", "accessor"), Slot("s", "y", "python")}
      [] dt = "BOOL" -> {Slot("i", 0, "none"), Slot("i", 2, "none"), Slot("i", 1, "accessor")}
      [] dt = "DATETIME" -> {Slot("d", DtVal(0, 999, 0), "none"),
                             Slot("d", DtVal(247, 999, 500000000), "none"),
                             Slot("d", DtVal(7, 0, 0), "python"),
                             Slot("d", DtVal(7, 0, 0), "accessor")}
      [] OTHER -> {Slot("i", 0, "none")}

ScalarArrays ==
    UNION {{Elem(FALSE, TRUE, FALSE, dt, "A", FALSE, vs, <<>>, f) :
               vs \in SeqsUpTo(ArraySlots(dt), MaxLen), f \in {NoFail, <<"new", 0>>}}
           \cup {Elem(FALSE, TRUE, TRUE, dt, "A", FALSE, <<>>, <<>>, f) :
               f \in {NoFail, <<"new", 0>>}} :
           dt \in {"INT64", "STRING", "BOOL", "DATETIME", "SEQUENCE"}}

\* The sub-elements containers are built from: scalars (two of them under
\* one name), a failing string, a null, a date, and two containers.
Kids ==
    {Scalar("INT64", "X", Slot("i", 42, "none"), FALSE),
     Scalar("STRING", "X", Slot("s", "ABC", "none"), FALSE),
     Scalar("STRING", "Y", Slot("s", "ABC", "accessor"), FALSE),
     Scalar("INT32", "Y", Slot("i", 0, "none"), TRUE),
     Scalar("DATETIME", "T", Slot("d", DtVal(247, 1, 500000000), "none"), FALSE),
     Elem(FALSE, TRUE, FALSE, "INT64", "Z", FALSE,
          <<Slot("i", 1, "none"), Slot("i", 2, "none")>>, <<>>, NoFail),
     Elem(TRUE, FALSE, FALSE, "SEQUENCE", "Z", FALSE, <<>>,
          <<Scalar("INT64", "X", Slot("i", 42, "none"), FALSE)>>, NoFail)}

FailPoints(n, insert) ==
    {NoFail, <<"new", 0>>} \cup {<<"access", k>> : k \in 1..n}
    \cup (IF insert THEN {<<"insert", k>> : k \in 1..n} ELSE {})

ComplexElems ==
    UNION {{Elem(TRUE, FALSE, FALSE, "SEQUENCE", "R", FALSE, <<>>, ss, f) :
               f \in FailPoints(Len(ss), TRUE)} : ss \in SeqsUpTo(Kids, MaxLen)}
    \cup {Elem(TRUE, ar, nl, dt, "R", FALSE, <<>>, <<>>, f) :
               ar \in BOOLEAN, nl \in BOOLEAN, dt \in {"SEQUENCE", "CHOICE"},
               f \in {NoFail, <<"new", 0>>}}

ComplexArrays ==
    UNION {{Elem(FALSE, TRUE, FALSE, "SEQUENCE", "A", TRUE, <<>>, ss, f) :
               f \in FailPoints(Len(ss), FALSE)} : ss \in SeqsUpTo(Kids, MaxLen)}
    \cup {Elem(FALSE, TRUE, TRUE, "SEQUENCE", "A", TRUE, <<>>, <<>>, f) :
               f \in {NoFail, <<"new", 0>>}}

Elements == TopScalars \cup ScalarArrays \cup ComplexElems \cup ComplexArrays

\* What the interpreter can resolve: everything, or not the module, or not the
\* module's _DatetimeUtil, or not its toPyTimeFromInts.
Envs == {"ok", "noModule", "noUtil", "noFunc"}

\* The elements whose conversion reaches a date, time or date-time value.
UsesDates(e) ==
    \/ e.datatype \in DateTypes
    \/ \E k \in 1..Len(e.subs) : e.subs[k].datatype \in DateTypes

\* What the interpreter cannot resolve matters to a call only while the helper
\* is unresolved and the element holds a date.
EnvsFor(e) == IF cache.conv = "NULL" /\ UsesDates(e) THEN Envs ELSE {"ok"}

InitConv ==
    /\ phase = "idle"
    /\ cache = [module |-> "NULL", util |-> "NULL", conv |-> "NULL"]
    /\ last = <<>>
    /\ handles = <<>> /\ stage = <<>> /\ installed = <<>>
    /\ refcnt = <<>> /\ ext = <<>>
    /\ pc = <<>> /\ call = <<>> /\ gilOwner = 0 /\ gilCount = <<>>
    /\ saved = <<>> /\ tmp = <<>> /\ cnt = 0

\* One call of the exported entry point.  After a release of an object the
\* call held no reference to, the process may go on and return, or die.
Converted(e, env) ==
    /\ LET r == ElementToPy(Fresh(cache, env), e) IN
         /\ cache' = r.S.cache
         /\ last' = [e |-> e, env |-> env, before |-> cache, ret |-> r.ret, S |-> r.S]
         /\ phase' \in (IF r.S.ub THEN {"returned", "crashed"} ELSE {"returned"})
    /\ UNCHANGED <<lifeVars, gilVars>>

\* The caller takes the result; the process goes on with the statics as left.
Return ==
    /\ phase = "returned"
    /\ phase' = "idle"
    /\ last' = <<>>
    /\ UNCHANGED <<cache, lifeVars, gilVars>>

blpapi_Element_toPy ==
    /\ phase = "idle"
    /\ \E e \in Elements : \E env \in EnvsFor(e) : Converted(e, env)

NextConv ==
    \/ blpapi_Element_toPy
    \/ Return

SpecConv == InitConv /\ [][NextConv]_vars

-----------------------------------------------------------------------------
(* Properties of the conversion *)

Returned == phase = "returned"

\* The call ended, by returning or by the process dying.
Ended == phase \in {"returned", "crashed"}

\* The Python value an object stands for.
RECURSIVE Value(_, _)
Value(heap, id) ==
    IF id = 0 THEN <<"NULL", 0>>
    ELSE LET o == heap[id] IN
         CASE o.kind = "list" ->
                <<"list", [k \in 1..Len(o.items) |-> Value(heap, o.items[k])]>>
           [] o.kind = "dict" ->
                <<"dict", [k \in 1..Len(o.items) |->
                              <<o.items[k][1], Value(heap, o.items[k][2])>>]>>
           [] OTHER -> <<o.kind, o.val>>

\* The accessors that read a value at an index.
ValueAccessors ==
    {"getValueAsBool", "getValueAsInt64", "getValueAsFloat64", "getValueAsString",
     "getValueAsBytes", "getValueAsHighPrecisionDatetime", "getValueAsElement"}

CallsOf(S, F) == {k \in 1..Len(S.calls) : S.calls[k] \in F}

Resolved == [module |-> "live", util |-> "live", conv |-> "live"]

IsScalarShape(e) == ~e.isComplex /\ ~e.isArray

\* C2: the shape is decided in the order complex, array, null, scalar at
\* index 0; a null array or record without values comes back as an empty
\* sequence or mapping, and only a null element that is neither complex nor
\* array takes the null branch, which calls no datatype or value accessor.
C2_DispatchOrder ==
    Returned =>
      LET e == last.e
          S == last.S
      IN
      /\ S.calls[1] = "isComplexType"
      /\ e.isComplex =>
           /\ S.route[1] = [fn |-> "complexElementToPy", index |-> 0]
           /\ Len(S.calls) >= 2 => S.calls[2] = "numElements"
      /\ (~e.isComplex /\ e.isArray) =>
           /\ S.route[1] = [fn |-> "arrayElementToPy", index |-> 0]
           /\ S.calls[2] = "isArray"
           /\ S.calls[3] = "numValues"
      /\ (IsScalarShape(e) /\ e.isNull) =>
           /\ last.ret = NoneId
           /\ S.route = <<>>
           /\ S.calls = <<"isComplexType", "isArray", "isNull">>
      /\ (IsScalarShape(e) /\ ~e.isNull) =>
           /\ S.route = <<[fn |-> "getScalarValue", index |-> 0]>>
           /\ S.calls[2] = "isArray" /\ S.calls[3] = "isNull"
           /\ S.calls[4] = "datatype"
      /\ (e.isNull /\ ~IsScalarShape(e) /\ e.fail = "none") =>
           /\ last.ret # 0 /\ last.ret # NoneId
           /\ S.heap[last.ret].kind = (IF e.isComplex THEN "dict" ELSE "list")
           /\ S.heap[last.ret].items = <<>>

\* C2 witness: a null array, not complex, that came back as an empty list.
C2_Witness ==
    /\ Returned
    /\ last.e.isNull /\ last.e.isArray /\ ~last.e.isComplex
    /\ last.ret # 0
    /\ Value(last.S.heap, last.ret) = <<"list", <<>>>>

\* The entries of route made by the array's own loop over scalar values.
ScalarRoute(n) == [k \in 1..n |-> [fn |-> "getScalarValue", index |-> k - 1]]

\* C3: an array whose conversions all succeed comes back as a list of exactly
\* its n values, entry i being the conversion of value i alone (the recursive
\* conversion of sub-element i when the schema type is complex, otherwise
\* getScalarValue(element, i)), the schema's isComplexType read once.
C3_ArrayInOrder ==
    (Returned /\ last.e.isArray /\ ~last.e.isComplex /\ last.ret # 0) =>
      LET e == last.e
          S == last.S
          n == NumValues(e)
          o == S.heap[last.ret]
          One(i) == IF e.typeComplex
                    THEN ElementToPy(Fresh(Resolved, "ok"), e.subs[i])
                    ELSE GetScalarValue(Fresh(Resolved, "ok"), e, i - 1)
      IN
      /\ o.kind = "list"
      /\ Len(o.items) = n
      /\ \A i \in 1..n :
            /\ o.items[i] # 0
            /\ One(i).ret # 0
            /\ Value(S.heap, o.items[i]) = Value(One(i).S.heap, One(i).ret)
      /\ \A i \in 1..n, j \in 1..n :
            (i # j /\ o.items[i] = o.items[j]) => o.items[i] = NoneId
      /\ ~e.typeComplex =>
            /\ Cardinality(CallsOf(S, {"SchemaTypeDefinition_isComplexType"})) = 1
            /\ S.route = <<[fn |-> "arrayElementToPy", index |-> 0]>> \o ScalarRoute(n)
      /\ e.typeComplex =>
            /\ Cardinality(CallsOf(S, {"SchemaTypeDefinition_isComplexType"}))
                  = 1 + Cardinality({k \in 1..n : e.subs[k].isArray /\ ~e.subs[k].isComplex})
            /\ Cardinality(CallsOf(S, {"getValueAsElement"})) = n

\* C3 witness: the array of the integers 1, 2 came back as the list [1, 2].
C3_Witness ==
    /\ Returned /\ last.e.isArray /\ ~last.e.isComplex /\ last.ret # 0
    /\ last.e.vals = <<Slot("i", 1, "none"), Slot("i", 2, "none")>>
    /\ Value(last.S.heap, last.ret) = <<"list", << <<"int", 1>>, <<"int", 2>> >> >>

\* The objects of the call that still hold references the call took, and
\* those that lost more than it took.
Leaked(S) == {id \in 1..Len(S.heap) : S.heap[id].rc > S.heap[id].base}

OverReleased(S) == {id \in 1..Len(S.heap) : S.heap[id].rc < S.heap[id].base}

\* C4: when the conversion of an array or a record fails, nothing of what
\* the call created is still referenced and nothing was released more often
\* than it was referenced.
C4_FailureReleasesOnce ==
    (Ended /\ ~IsScalarShape(last.e) /\ (last.ret = 0 \/ phase = "crashed")) =>
      /\ last.ret = 0
      /\ ~last.S.ub
      /\ Leaked(last.S) = {}
      /\ OverReleased(last.S) = {}

\* C5 as stated: a null element of any shape comes back as None and no value
\* accessor is called.
C5_AnyNullIsNone ==
    (Returned /\ last.e.isNull /\ last.e.fail = "none") =>
      /\ last.ret = NoneId
      /\ CallsOf(last.S, ValueAccessors \cup {"datatype"}) = {}

\* C5 amended: a null element that is neither complex nor array comes back
\* as None with no datatype or value accessor called; a null array or record
\* comes back as a list or dict, not as None.
C5_NullScalarIsNone ==
    (Returned /\ last.e.isNull) =>
      /\ CallsOf(last.S, ValueAccessors \cup {"datatype"}) = {}
      /\ IsScalarShape(last.e) =>
           /\ last.ret = NoneId
           /\ Value(last.S.heap, last.ret) = <<"None", 0>>
           /\ last.S.heap[NoneId].rc = NoneObj.rc + 1
      /\ (~IsScalarShape(last.e) /\ last.e.fail = "none") =>
           /\ last.ret # 0 /\ last.ret # NoneId
           /\ last.S.heap[last.ret].kind \in {"list", "dict"}

\* C5 witness: a null date-time scalar came back as None.
C5_Witness ==
    /\ Returned /\ last.e.isNull /\ IsScalarShape(last.e)
    /\ last.e.datatype = "DATETIME"
    /\ last.ret = NoneId
    /\ last.S.calls = <<"isComplexType", "isArray", "isNull">>

GenericErrors == {ComplexGeneric, ArrayGeneric}

ResolutionErrors ==
    {"Internal error getting blpapi.datetime", "Internal error getting _DatetimeUtil",
     "Internal error getting 'toPyTimeFromInts'"}

\* C6: a call that returns NULL returns with the error indicator set, a call
\* that returns a value has set none; the error of the failing operation is
\* the one returned (only the resolution replaces the runtime's error by its
\* own), and a generic error is set only when none was set before.
C6_ErrorIffFailure ==
    Returned =>
      LET S == last.S IN
      /\ last.ret = 0 => (S.err # "" /\ S.errs # <<>> /\ S.err = S.errs[Len(S.errs)])
      /\ last.ret # 0 => (S.err = "" /\ S.errs = <<>>)
      /\ \A k \in 1..Len(S.errs) : S.errs[k] \in GenericErrors => k = 1
      /\ Len(S.errs) <= 2
      /\ Len(S.errs) = 2 =>
            (S.errs[1] = "error set by the runtime" /\ S.errs[2] \in ResolutionErrors)

\* C6 witness: a record whose second field's string accessor failed returned
\* NULL with that accessor's error.
C6_Witness ==
    /\ Returned /\ last.ret = 0
    /\ last.e.isComplex /\ Len(last.e.subs) = 2 /\ last.e.fail = "none"
    /\ last.S.errs = <<"Internal error getting string">>
    /\ last.S.err = "Internal error getting string"

\* The number of values of the element with a non-empty parts indicator.
RECURSIVE WithParts(_, _)
WithParts(vs, k) ==
    IF k = 0 THEN 0
    ELSE WithParts(vs, k - 1) + (IF vs[k].v.parts # 0 THEN 1 ELSE 0)

\* C9: a timestamp read from a date, time or date-time element with an empty
\* parts indicator comes back as None, whatever its other fields, without a
\* call of the helper; one with parts makes exactly one call, whose last
\* argument is milliseconds * 1000 + picoseconds / 1000000.
C9_PartsDecide ==
    (Returned /\ ~last.e.isComplex /\ ~(IsScalarShape(last.e) /\ last.e.isNull)
              /\ last.e.datatype \in DateTypes /\ last.e.fail = "none") =>
      LET e == last.e
          S == last.S
          read == Cardinality(CallsOf(S, {"getValueAsHighPrecisionDatetime"}))
          got == IF read > 0 /\ e.vals[read].fail = "accessor" THEN read - 1 ELSE read
      IN
      /\ Len(S.helper) = WithParts(e.vals, got)
      /\ \A k \in 1..got :
            LET d == e.vals[k].v IN
            /\ (d.parts = 0 /\ ~e.isArray) => (last.ret = NoneId /\ S.helper = <<>>)
            /\ (d.parts # 0 /\ ~e.isArray) =>
                  /\ Len(S.helper) = 1
                  /\ S.helper[1][1] = d.parts
                  /\ S.helper[1][9] = d.ms * 1000 + d.ps \div 1000000
                  /\ (d.ps = 500000000) => S.helper[1][9] = d.ms * 1000 + 500
            /\ (d.parts = 0 /\ e.isArray /\ last.ret # 0) =>
                  S.heap[last.ret].items[k] = NoneId

\* C9 witness: a date-time with all parts, 999 ms and 500000000 ps was handed
\* to the helper once, with 999500 microseconds.
C9_Witness ==
    /\ Returned /\ IsScalarShape(last.e) /\ last.e.datatype = "DATETIME"
    /\ last.e.vals[1].v.ps = 500000000 /\ last.e.vals[1].v.ms = 999
    /\ last.e.vals[1].v.parts = 247
    /\ Len(last.S.helper) = 1
    /\ last.S.helper[1][9] = 999500
    /\ last.ret # 0
    /\ last.S.heap[last.ret].kind = "datetime"

\* C10: once the helper is resolved no call runs a lookup or changes the
\* statics; a resolution that fails makes the call fail with an error and
\* leaves none of the references it took unreleased, and the next resolution
\* starts again at the import.
C10_ResolvedOnce ==
    /\ cache.conv = "live" => (cache.module = "live" /\ cache.util = "live")
    /\ Returned =>
         LET S == last.S IN
         /\ last.before.conv = "live" => (S.lookups = <<>> /\ S.cache = last.before)
         /\ S.lookups # <<>> => (last.before.conv = "NULL" /\ S.lookups[1] = "import")
         /\ (S.lookups # <<>> /\ S.cache.conv = "NULL") =>
               /\ last.ret = 0
               /\ S.err \in ResolutionErrors
               /\ S.refs = NoRefs

=============================================================================
